---- MODULE Spec2Model ----
(***************************************************************************)
(* code2ascii: a command-line utility that prints a source file with ANSI  *)
(* truecolor highlighting chosen by file extension (src/main.cpp).         *)
(*                                                                         *)
(* A string is a sequence of one-character strings.  The standard output   *)
(* stream `out' is a sequence of items: <<"ch", c>> for a character of     *)
(* content and <<"sgr", params>> for an ANSI SGR escape sequence.          *)
(***************************************************************************)
EXTENDS Integers, Sequences, FiniteSets, TLC

VARIABLES pc, argv, canOpen, content, file, opened, rules, line, remaining,
          out, err, exitCode

vars == <<pc, argv, canOpen, content, file, opened, rules, line, remaining,
          out, err, exitCode>>

(***************************************************************************)
(* Characters                                                              *)
(***************************************************************************)
DQ == "\""
SQ == "'"
BS == "\\"
CR == "\r"
LF == "\n"

Letters ==
  {"a","b","c","d","e","f","g","h","i","j","k","l","m","n","o","p","q","r","s","t","u",
   "v","w","x","y","z","A","B","C","D","E","F","G","H","I","J","K","L","M","N","O","P",
   "Q","R","S","T","U","V","W","X","Y","Z"}

Digits == {"0","1","2","3","4","5","6","7","8","9"}

\* The class \w of ECMAScript regular expressions, which \b is defined by.
WordChars == Letters \cup Digits \cup {"_"}

\* The characters the ECMAScript wildcard `.' does not match.
LineTerminators == {LF, CR}

Min(S) == CHOOSE x \in S : \A y \in S : x <= y

\* s.substr(pos): the suffix of s that starts at offset pos (0-based).
substr(s, pos) == SubSeq(s, pos + 1, Len(s))

\* s.substr(pos, n)
substr2(s, pos, n) == SubSeq(s, pos + 1, pos + n)

(***************************************************************************)
(* rgb() and reset: the color markers                                      *)
(***************************************************************************)
\* "\033[38;2;" + r + ";" + g + ";" + b + "m"
rgb(r, g, b) == <<"sgr", <<38, 2, r, g, b>>>>

\* "\033[0m"
reset == <<"sgr", <<0>>>>

KeywordColor == rgb(0, 136, 255)
StringColor  == rgb(255, 136, 0)
CommentColor == rgb(136, 136, 136)
NumberColor  == rgb(255, 0, 255)

(***************************************************************************)
(* The keyword alternations of the two rule sets, in declaration order     *)
(***************************************************************************)
CppKeywords ==
  << <<"a","l","i","g","n","a","s">>, <<"a","l","i","g","n","o","f">>, <<"a","n","d">>,
     <<"a","n","d","_","e","q">>, <<"a","s","m">>, <<"a","u","t","o">>, <<"b","o","o","l">>,
     <<"b","r","e","a","k">>, <<"c","a","s","e">>, <<"c","a","t","c","h">>, <<"c","h","a","r">>,
     <<"c","l","a","s","s">>, <<"c","o","n","s","t">>, <<"c","o","n","s","t","e","x","p","r">>,
     <<"c","o","n","s","t","_","c","a","s","t">>, <<"c","o","n","t","i","n","u","e">>,
     <<"d","e","c","l","t","y","p","e">>, <<"d","e","f","a","u","l","t">>,
     <<"d","e","l","e","t","e">>, <<"d","o">>, <<"d","o","u","b","l","e">>,
     <<"d","y","n","a","m","i","c","_","c","a","s","t">>, <<"e","l","s","e">>,
     <<"e","n","u","m">>, <<"e","x","p","l","i","c","i","t">>, <<"e","x","p","o","r","t">>,
     <<"e","x","t","e","r","n">>, <<"f","a","l","s","e">>, <<"f","l","o","a","t">>,
     <<"f","o","r">>, <<"f","r","i","e","n","d">>, <<"g","o","t","o">>, <<"i","f">>,
     <<"i","n","l","i","n","e">>, <<"i","n","t">>, <<"l","o","n","g">>,
     <<"m","u","t","a","b","l","e">>, <<"n","a","m","e","s","p","a","c","e">>, <<"n","e","w">>,
     <<"n","o","e","x","c","e","p","t">>, <<"n","u","l","l","p","t","r">>,
     <<"o","p","e","r","a","t","o","r">>, <<"p","r","i","v","a","t","e">>,
     <<"p","r","o","t","e","c","t","e","d">>, <<"p","u","b","l","i","c">>,
     <<"r","e","g","i","s","t","e","r">>,
     <<"r","e","i","n","t","e","r","p","r","e","t","_","c","a","s","t">>,
     <<"r","e","t","u","r","n">>, <<"s","h","o","r","t">>, <<"s","i","g","n","e","d">>,
     <<"s","i","z","e","o","f">>, <<"s","t","a","t","i","c">>,
     <<"s","t","a","t","i","c","_","a","s","s","e","r","t">>,
     <<"s","t","a","t","i","c","_","c","a","s","t">>, <<"s","t","r","u","c","t">>,
     <<"s","w","i","t","c","h">>, <<"t","e","m","p","l","a","t","e">>, <<"t","h","i","s">>,
     <<"t","h","r","e","a","d","_","l","o","c","a","l">>, <<"t","h","r","o","w">>,
     <<"t","r","u","e">>, <<"t","r","y">>, <<"t","y","p","e","d","e","f">>,
     <<"t","y","p","e","i","d">>, <<"t","y","p","e","n","a","m","e">>, <<"u","n","i","o","n">>,
     <<"u","n","s","i","g","n","e","d">>, <<"u","s","i","n","g">>,
     <<"v","i","r","t","u","a","l">>, <<"v","o","i","d">>, <<"v","o","l","a","t","i","l","e">>,
     <<"w","c","h","a","r","_","t">>, <<"w","h","i","l","e">>, <<"x","o","r">>,
     <<"x","o","r","_","e","q">> >>

PyKeywords ==
  << <<"F","a","l","s","e">>, <<"N","o","n","e">>, <<"T","r","u","e">>, <<"a","n","d">>,
     <<"a","s">>, <<"a","s","s","e","r","t">>, <<"a","s","y","n","c">>, <<"a","w","a","i","t">>,
     <<"b","r","e","a","k">>, <<"c","l","a","s","s">>, <<"c","o","n","t","i","n","u","e">>,
     <<"d","e","f">>, <<"d","e","l">>, <<"e","l","i","f">>, <<"e","l","s","e">>,
     <<"e","x","c","e","p","t">>, <<"f","i","n","a","l","l","y">>, <<"f","o","r">>,
     <<"f","r","o","m">>, <<"g","l","o","b","a","l">>, <<"i","f">>, <<"i","m","p","o","r","t">>,
     <<"i","n">>, <<"i","s">>, <<"l","a","m","b","d","a">>, <<"n","o","n","l","o","c","a","l">>,
     <<"n","o","t">>, <<"o","r">>, <<"p","a","s","s">>, <<"r","a","i","s","e">>,
     <<"r","e","t","u","r","n">>, <<"t","r","y">>, <<"w","h","i","l","e">>, <<"w","i","t","h">>,
     <<"y","i","e","l","d">> >>

(***************************************************************************)
(* std::regex (ECMAScript grammar) as used by the rules.  Offsets are      *)
(* 0-based as in the source: the character at offset p of s is s[p + 1].   *)
(* Each Match operator gives the length of the match of a pattern that     *)
(* starts at offset p of s, or NoMatch.                                    *)
(***************************************************************************)
NoMatch == -1

\* string::npos, the largest size_t: above every offset of every string.
npos == 2147483647

\* \b : exactly one side of offset p is a word character.
AtWordBoundary(s, p) ==
  LET left  == p > 0 /\ s[p] \in WordChars
      right == p < Len(s) /\ s[p + 1] \in WordChars
  IN  left # right

\* $ : without the multiline option, only the end of the subject.
AtEnd(s, p) == p = Len(s)

\* The end offset of the longest run of characters of class C from offset p.
RunEnd(s, p, C) ==
  LET stops == {j \in (p + 1)..Len(s) : s[j] \notin C}
  IN  IF stops = {} THEN Len(s) ELSE Min(stops) - 1

\* The end offset of the longest run that `.*' matches from offset p.
DotRunEnd(s, p) ==
  LET stops == {j \in (p + 1)..Len(s) : s[j] \in LineTerminators}
  IN  IF stops = {} THEN Len(s) ELSE Min(stops) - 1

\* \b(w1|w2|...)\b : every alternative is made of word characters only, so
\* between the two \b it is the whole run of word characters that starts at
\* offset p which has to be one of the alternatives.
MatchKeyword(words, s, p) ==
  LET w == substr2(s, p, RunEnd(s, p, WordChars) - p)
  IN  IF p < Len(s) /\ AtWordBoundary(s, p) /\ (\E i \in 1..Len(words) : words[i] = w)
      THEN Len(w) ELSE NoMatch

\* Variant: a backslash is taken as an ordinary character.
RECURSIVE QuotedBodyNoEscape(_, _, _)
QuotedBodyNoEscape(s, j, q) ==
  IF j >= Len(s) THEN NoMatch
  ELSE IF s[j + 1] = q THEN j + 1 ELSE QuotedBodyNoEscape(s, j + 1, q)

\* The part of a quoted literal after its opening quote, scanned from offset
\* j: [^q\\]* (\\. [^q\\]*)* q  and  ([^q\\] | \\.)* q  accept the same strings,
\* and every character leaves one way to go on.  The end offset, or NoMatch.
RECURSIVE QuotedBody(_, _, _)
QuotedBody(s, j, q) ==
  IF j >= Len(s) THEN NoMatch
  ELSE LET c == s[j + 1] IN
       IF c = q THEN j + 1
       ELSE IF c = BS
            THEN IF j + 1 < Len(s) /\ s[j + 2] \notin LineTerminators
                 THEN QuotedBody(s, j + 2, q) ELSE NoMatch
            ELSE QuotedBody(s, j + 1, q)

\* "[^"\\]*(\\.[^"\\]*)*"  and  "([^"\\]|\\.)*"  (q the quote character)
MatchQuoted(q, s, p) ==
  IF p < Len(s) /\ s[p + 1] = q
  THEN LET e == QuotedBody(s, p + 1, q)
       IN  IF e = NoMatch THEN NoMatch ELSE e - p
  ELSE NoMatch

\* //.*$  and  #.*$  (tok the comment-start token)
MatchComment(tok, s, p) ==
  IF p + Len(tok) <= Len(s) /\ substr2(s, p, Len(tok)) = tok
  THEN LET e == DotRunEnd(s, p + Len(tok))
       IN  IF AtEnd(s, e) THEN e - p ELSE NoMatch
  ELSE NoMatch

\* Variant: \d+ with the opening \b only.
MatchNumberNoClosingBoundary(s, p) ==
  IF ~AtWordBoundary(s, p) \/ RunEnd(s, p, Digits) = p THEN NoMatch
  ELSE RunEnd(s, p, Digits) - p

\* \b\d+(\.\d+)?\b : greedy, the fraction is tried first and given up when the
\* closing \b fails after it.
MatchNumber(s, p) ==
  IF ~AtWordBoundary(s, p) THEN NoMatch
  ELSE LET e1 == RunEnd(s, p, Digits)
           f  == IF e1 < Len(s) /\ s[e1 + 1] = "." THEN RunEnd(s, e1 + 1, Digits) ELSE e1
           hasFraction == f > e1 + 1
       IN  IF e1 = p THEN NoMatch
           ELSE IF hasFraction /\ AtWordBoundary(s, f) THEN f - p
           ELSE IF AtWordBoundary(s, e1) THEN e1 - p
           ELSE NoMatch

\* [C]+ and [C]* : patterns a caller of highlightAndPrintLine may pass.
MatchPlus(C, s, p) == IF RunEnd(s, p, C) > p THEN RunEnd(s, p, C) - p ELSE NoMatch
MatchStar(C, s, p) == RunEnd(s, p, C) - p

\* The patterns, by name.
MatchLen(pattern, s, p) ==
  CASE pattern = "cpp_keyword" -> MatchKeyword(CppKeywords, s, p)
    [] pattern = "py_keyword"  -> MatchKeyword(PyKeywords, s, p)
    [] pattern = "cpp_dq"      -> MatchQuoted(DQ, s, p)
    [] pattern = "cpp_sq"      -> MatchQuoted(SQ, s, p)
    [] pattern = "py_dq"       -> MatchQuoted(DQ, s, p)
    [] pattern = "py_sq"       -> MatchQuoted(SQ, s, p)
    [] pattern = "cpp_comment" -> MatchComment(<<"/", "/">>, s, p)
    [] pattern = "py_comment"  -> MatchComment(<<"#">>, s, p)
    [] pattern = "number"      -> MatchNumber(s, p)
    [] pattern = "[i]+"        -> MatchPlus({"i"}, s, p)
    [] pattern = "[if]+"       -> MatchPlus({"i", "f"}, s, p)
    [] pattern = "[1]*"        -> MatchStar({"1"}, s, p)

\* regex_search(s, match, pattern): the start offsets are tried from the left,
\* and the first one the pattern matches at gives the match.
RECURSIVE SearchFrom(_, _, _)
SearchFrom(s, pattern, p) ==
  IF p > Len(s) THEN [found |-> FALSE, position |-> 0, length |-> 0]
  ELSE LET n == MatchLen(pattern, s, p)
       IN  IF n # NoMatch THEN [found |-> TRUE, position |-> p, length |-> n]
           ELSE SearchFrom(s, pattern, p + 1)

regex_search(s, pattern) == SearchFrom(s, pattern, 0)

(***************************************************************************)
(* getHighlightRules and getFileExtension                                  *)
(***************************************************************************)
HighlightRule(pattern, color_code) == [pattern |-> pattern, color_code |-> color_code]

CppRules ==
  << HighlightRule("cpp_keyword", KeywordColor),
     HighlightRule("cpp_dq", StringColor),
     HighlightRule("cpp_sq", StringColor),
     HighlightRule("cpp_comment", CommentColor),
     HighlightRule("number", NumberColor) >>

PyRules ==
  << HighlightRule("py_keyword", KeywordColor),
     HighlightRule("py_dq", StringColor),
     HighlightRule("py_sq", StringColor),
     HighlightRule("py_comment", CommentColor),
     HighlightRule("number", NumberColor) >>

\* Variant: the upper-case extension CPP is taken as cpp.
getHighlightRulesAnyCase(ext) ==
  IF ext \in {<<"c", "p", "p">>, <<"h", "p", "p">>, <<"c">>, <<"h">>, <<"C", "P", "P">>}
  THEN CppRules
  ELSE IF ext = <<"p", "y">> THEN PyRules
  ELSE <<>>

getHighlightRules(ext) ==
  IF ext \in {<<"c", "p", "p">>, <<"h", "p", "p">>, <<"c">>, <<"h">>} THEN CppRules
  ELSE IF ext = <<"p", "y">> THEN PyRules
  ELSE <<>>

\* filename.find_last_of('.'), then the substring after it.
getFileExtension(filename) ==
  LET dots == {i \in 1..Len(filename) : filename[i] = "."}
      pos  == IF dots = {} THEN npos ELSE (CHOOSE i \in dots : \A j \in dots : j <= i) - 1
  IN  IF pos = npos THEN <<>> ELSE substr(filename, pos + 1)

(***************************************************************************)
(* Bounds and inputs                                                       *)
(***************************************************************************)
MaxLen == 4        \* longest line of LineSpec
MaxGenLen == 3     \* longest line of GenSpec
MaxRules == 2      \* longest rule sequence of GenSpec
MaxOut == 8        \* items on `out' after which a loop that makes no progress is cut
MaxLines == 2      \* most lines of a file of Spec
MaxExtraArgs == 1  \* most arguments after the file name

\* The characters of the lines of LineSpec: two letters that spell the keyword
\* `if' of both languages, a digit, the decimal point (also the plain
\* non-word character), both quotes, the backslash, both comment-start
\* characters and the carriage return that a CRLF file leaves at the end of a
\* line read by getline.
Alphabet == {"i", "f", "1", ".", DQ, SQ, BS, "/", "#", CR}

\* The characters of the lines of GenSpec.
GenAlphabet == {"i", "f", "1", DQ}

SeqsUpTo(S, n) == UNION {[1..k -> S] : k \in 0..n}

\* Rule sequences other than the catalog's: [i]+ and [if]+ tie at every `i',
\* [1]* matches the empty string wherever no `1' stands.
GenRules ==
  { HighlightRule("[i]+", KeywordColor),
    HighlightRule("[if]+", StringColor),
    HighlightRule("[1]*", NumberColor) }

GenRuleSeqs ==
  {rs \in SeqsUpTo(GenRules, MaxRules) : \A i, j \in 1..Len(rs) : i # j => rs[i] # rs[j]}

Filenames ==
  { <<"a", ".", "c", "p", "p">>, <<"a", ".", "h", "p", "p">>, <<"a", ".", "c">>,
    <<"a", ".", "h">>, <<"a", ".", "p", "y">>, <<"a", ".", "t", "x", "t">>,
    <<"c", "p", "p">>, <<"a", ".", "C", "P", "P">>, <<"a", ".", "c", "p", "p", ".">>,
    <<"a", ".", "p", "y", ".", "c">>, <<"p", "y", ".", "d", "/", "a">>,
    <<"a", ".", "p", "y", "c">> }

ExtraArg == <<"b", ".", "p", "y">>

\* The lines a file of Spec is made of.
FileLines ==
  { <<"i", "n", "t", " ", "x", " ", "=", " ", "4", "2", ";", " ", "/", "/", " ", "c", "o",
      "m", "m", "e", "n", "t">>,
    <<"s", " ", "=", " ", DQ, "v", "a", "l", "u", "e", " ", "1", "2", "3", DQ>>,
    <<"#", " ", "i", "f", " ", "1", CR>>,
    <<>> }

NoExit == -1

(***************************************************************************)
(* highlightAndPrintLine                                                   *)
(***************************************************************************)
\* cout << text
Emit(text) == [i \in 1..Len(text) |-> <<"ch", text[i]>>]

\* Variant: the reset marker is left out.
ColoredNoReset(color_code, str) == <<color_code>> \o Emit(str)

\* cout << color_code << earliest_match.str(0) << reset
Colored(color_code, str) == <<color_code>> \o Emit(str) \o <<reset>>

\* Variant: a later rule takes over a match that starts at the same offset.
EarlierOrEqual(match_pos, earliest_pos) == match_pos <= earliest_pos

\* match_pos < earliest_pos
Earlier(match_pos, earliest_pos) == match_pos < earliest_pos

\* The for loop over the rules, from rule i on.
RECURSIVE FindEarliest(_, _, _, _)
FindEarliest(rs, i, rem, acc) ==
  IF i > Len(rs) THEN acc
  ELSE LET match == regex_search(rem, rs[i].pattern)
       IN  FindEarliest(rs, i + 1, rem,
             IF match.found /\ Earlier(match.position, acc.earliest_pos)
             THEN [earliest_pos |-> match.position, earliest_len |-> match.length,
                   color_code |-> rs[i].color_code]
             ELSE acc)

Earliest(rs, rem) ==
  FindEarliest(rs, 1, rem, [earliest_pos |-> npos, earliest_len |-> 0, color_code |-> <<>>])

\* Variant: the rest is cut one character after the start of the match.
AdvanceByOne(rem, earliest_pos, earliest_len) == substr(rem, earliest_pos + 1)

\* remaining = remaining.substr(earliest_pos + earliest_len)
Advance(rem, earliest_pos, earliest_len) == substr(rem, earliest_pos + earliest_len)

\* One iteration of the while loop.  With no match the rest is printed, the
\* loop is left and the line terminator follows; with a match the text before
\* it is printed, then the match between its color and reset, and the rest is
\* cut after the match.
LoopBody ==
  /\ pc = "scan"
  /\ remaining # <<>>
  /\ \E e \in {Earliest(rules, remaining)} :
       IF e.earliest_pos = npos
       THEN /\ out' = out \o Emit(remaining) \o Emit(<<LF>>)
            /\ pc' = "getline"
            /\ UNCHANGED remaining
       ELSE /\ e.earliest_len = 0 => Len(out) < MaxOut
            /\ out' = out \o Emit(substr2(remaining, 0, e.earliest_pos))
                          \o Colored(e.color_code,
                                     substr2(remaining, e.earliest_pos, e.earliest_len))
            /\ remaining' = Advance(remaining, e.earliest_pos, e.earliest_len)
            /\ UNCHANGED pc
  /\ UNCHANGED <<argv, canOpen, content, file, opened, rules, line, err, exitCode>>

\* The loop ends on an empty rest; the line terminator follows.
LoopExit ==
  /\ pc = "scan"
  /\ remaining = <<>>
  /\ out' = out \o Emit(<<LF>>)
  /\ pc' = "getline"
  /\ UNCHANGED <<argv, canOpen, content, file, opened, rules, line, remaining, err, exitCode>>

(***************************************************************************)
(* main                                                                    *)
(***************************************************************************)
argc == Len(argv) + 1

\* Variant: the usage error returns 0.
MainUsageReturn0 ==
  /\ pc = "main"
  /\ argc < 2
  /\ err' = err \o <<<<"Usage", <<>>>>>>
  /\ exitCode' = 0
  /\ pc' = "exit"
  /\ UNCHANGED <<argv, canOpen, content, file, opened, rules, line, remaining, out>>

\* argc < 2: the usage message, return 1.
MainUsage ==
  /\ pc = "main"
  /\ argc < 2
  /\ err' = err \o <<<<"Usage", <<>>>>>>
  /\ exitCode' = 1
  /\ pc' = "exit"
  /\ UNCHANGED <<argv, canOpen, content, file, opened, rules, line, remaining, out>>

\* Variant: the error message is written to standard output.
MainOpenFailToStdout ==
  /\ pc = "main"
  /\ ~(argc < 2)
  /\ ~canOpen
  /\ out' = out \o <<<<"Error: Cannot open file", argv[1]>>>>
  /\ exitCode' = 1
  /\ pc' = "exit"
  /\ UNCHANGED <<argv, canOpen, content, file, opened, rules, line, remaining, err>>

\* ifstream file(argv[1]) fails: the error message, return 1.
MainOpenFail ==
  /\ pc = "main"
  /\ ~(argc < 2)
  /\ ~canOpen
  /\ err' = err \o <<<<"Error: Cannot open file", argv[1]>>>>
  /\ exitCode' = 1
  /\ pc' = "exit"
  /\ UNCHANGED <<argv, canOpen, content, file, opened, rules, line, remaining, out>>

\* The file opens: the rules of its extension are chosen.
MainOpen ==
  /\ pc = "main"
  /\ ~(argc < 2)
  /\ canOpen
  /\ opened' = TRUE
  /\ file' = content
  /\ rules' = getHighlightRules(getFileExtension(argv[1]))
  /\ pc' = "getline"
  /\ UNCHANGED <<argv, canOpen, content, line, remaining, out, err, exitCode>>

\* getline delivers a line: highlightAndPrintLine is entered.
GetLine ==
  /\ pc = "getline"
  /\ file # <<>>
  /\ line' = Head(file)
  /\ file' = Tail(file)
  /\ remaining' = Head(file)
  /\ pc' = "scan"
  /\ UNCHANGED <<argv, canOpen, content, opened, rules, out, err, exitCode>>

\* getline fails at the end of the file: return 0.
MainReturn ==
  /\ pc = "getline"
  /\ file = <<>>
  /\ exitCode' = 0
  /\ pc' = "exit"
  /\ UNCHANGED <<argv, canOpen, content, file, opened, rules, line, remaining, out, err>>

(***************************************************************************)
(* Specifications                                                          *)
(***************************************************************************)
\* The program, from its start.
Init ==
  /\ pc = "main"
  /\ argv \in {<<>>} \cup {<<f>> \o x : f \in Filenames, x \in SeqsUpTo({ExtraArg}, MaxExtraArgs)}
  /\ canOpen \in BOOLEAN
  /\ content \in IF canOpen /\ argv # <<>> THEN SeqsUpTo(FileLines, MaxLines) ELSE {<<>>}
  /\ file = <<>>
  /\ opened = FALSE
  /\ rules = <<>>
  /\ line = <<>>
  /\ remaining = <<>>
  /\ out = <<>>
  /\ err = <<>>
  /\ exitCode = NoExit

Next ==
  \/ MainUsage \/ MainOpenFail \/ MainOpen \/ GetLine \/ MainReturn
  \/ LoopBody \/ LoopExit

Spec == Init /\ [][Next]_vars

\* highlightAndPrintLine entered with a line and a rule sequence.
Entered(lines, ruleSeqs) ==
  /\ pc = "scan"
  /\ argv = <<>>
  /\ canOpen = TRUE
  /\ content = <<>>
  /\ file = <<>>
  /\ opened = TRUE
  /\ rules \in ruleSeqs
  /\ line \in lines
  /\ remaining = line
  /\ out = <<>>
  /\ err = <<>>
  /\ exitCode = NoExit

\* One line of each catalog rule set.
LineInit == Entered(SeqsUpTo(Alphabet, MaxLen), {CppRules, PyRules})
LineNext == LoopBody \/ LoopExit
LineSpec == LineInit /\ [][LineNext]_vars

\* One line of any rule sequence, those of the catalog among them.
GenInit == Entered(SeqsUpTo(GenAlphabet, MaxGenLen), GenRuleSeqs \cup {CppRules, PyRules})
GenNext == LoopBody \/ LoopExit
GenSpec == GenInit /\ [][GenNext]_vars

(***************************************************************************)
(* Properties                                                              *)
(***************************************************************************)
IsMarker(x) == x[1] = "sgr"
IsColor(x) == x[1] = "sgr" /\ x # reset

\* The output with every color marker removed.
Strip(o) ==
  LET chars == SelectSeq(o, LAMBDA x : x[1] = "ch")
  IN  [i \in 1..Len(chars) |-> chars[i][2]]

\* The matches the rules have in s: for rule i, its leftmost match.
MatchOf(rs, i, s) == regex_search(s, rs[i].pattern)
Matching(rs, s) == {i \in 1..Len(rs) : MatchOf(rs, i, s).found}
LowestStart(rs, s) == Min({MatchOf(rs, i, s).position : i \in Matching(rs, s)})

\* C1: with the color markers removed, the output of a line is the line and one
\* line terminator: while the line is being scanned, what has been emitted and
\* what remains are the line, in order, with nothing dropped or repeated.
ContentPreserved ==
  /\ pc = "scan" => Strip(out) \o remaining = line
  /\ pc = "getline" => Strip(out) = line \o <<LF>>

\* A line has been emitted whole, part of it plain and part of it colored.
ContentPreservedWitness ==
  /\ pc = "getline"
  /\ Len(line) >= 3
  /\ \E k \in 2..Len(out) : IsColor(out[k]) /\ ~IsMarker(out[k - 1])
  /\ \E k \in 1..(Len(out) - 2) : out[k] = reset /\ ~IsMarker(out[k + 1])

\* C2: a scan step that finds a match takes the rule whose leftmost match starts
\* lowest and, among the rules that tie there, the one declared first: the text
\* before that start is emitted plain, the match of that rule in that rule's
\* color, and the rest begins after that match.
EarliestDeclaredWins ==
  [][ (pc = "scan" /\ remaining # <<>> /\ Matching(rules, remaining) # {}) =>
        LET low == LowestStart(rules, remaining)
            w   == Min({i \in Matching(rules, remaining) :
                          MatchOf(rules, i, remaining).position = low})
            m   == MatchOf(rules, w, remaining)
        IN  /\ out' = out \o Emit(SubSeq(remaining, 1, low))
                          \o <<rules[w].color_code>>
                          \o Emit(SubSeq(remaining, low + 1, low + m.length))
                          \o <<reset>>
            /\ remaining' = SubSeq(remaining, low + m.length + 1, Len(remaining)) ]_vars

\* Two rules of different colors and match lengths tied at the lowest start of
\* the line, and the first step has emitted the span of the first of them.
EarliestDeclaredWinsWitness ==
  /\ pc = "scan"
  /\ out # <<>>
  /\ Matching(rules, line) # {}
  /\ \E i, j \in Matching(rules, line) :
       /\ i < j
       /\ MatchOf(rules, i, line).position = LowestStart(rules, line)
       /\ MatchOf(rules, j, line).position = LowestStart(rules, line)
       /\ MatchOf(rules, i, line).length < MatchOf(rules, j, line).length
       /\ rules[i].color_code # rules[j].color_code
       /\ out[LowestStart(rules, line) + 1] = rules[i].color_code

\* C9: every loop iteration that finds a match makes the rest strictly
\* shorter, so the loop ends.
EachMatchShortens ==
  [][ (pc = "scan" /\ pc' = "scan") => Len(remaining') < Len(remaining) ]_vars

\* The lines of a file as the characters of the stream they are read from.
RECURSIVE Flatten(_)
Flatten(lines) == IF lines = <<>> THEN <<>> ELSE Head(lines) \o <<LF>> \o Flatten(Tail(lines))

IsPrefix(a, b) == Len(a) <= Len(b) /\ SubSeq(b, 1, Len(a)) = a

\* The substring after the final `.', or the empty string when there is none.
ExtensionOf(filename) ==
  IF \A i \in 1..Len(filename) : filename[i] # "." THEN <<>>
  ELSE CHOOSE e \in {SubSeq(filename, k + 1, Len(filename)) : k \in 1..Len(filename)} :
         /\ filename[Len(filename) - Len(e)] = "."
         /\ \A i \in 1..Len(e) : e[i] # "."

SupportedExtensions ==
  {<<"c", "p", "p">>, <<"h", "p", "p">>, <<"c">>, <<"h">>, <<"p", "y">>}

\* The lines getline has delivered so far.
LinesRead == SubSeq(content, 1, Len(content) - Len(file))

\* C3: when the extension of the file name is none of cpp, hpp, c, h, py, the
\* rule sequence is empty, every line is emitted as it is with one line
\* terminator and no color marker, and the program exits with code 0.
UnsupportedVerbatim ==
  (argv # <<>> /\ ExtensionOf(argv[1]) \notin SupportedExtensions /\ opened) =>
     /\ rules = <<>>
     /\ \A k \in 1..Len(out) : ~IsMarker(out[k])
     /\ pc = "getline" => out = Emit(Flatten(LinesRead))
     /\ pc = "exit" => exitCode = 0 /\ out = Emit(Flatten(content))

\* A file of two lines, the first not empty, under a name with an extension
\* the catalog does not know, has been processed to the end.
UnsupportedVerbatimWitness ==
  /\ pc = "exit"
  /\ opened
  /\ ExtensionOf(argv[1]) \notin SupportedExtensions \cup {<<>>}
  /\ Len(content) >= 2
  /\ content[1] # <<>>

\* C4 as stated: with any argument count other than one file path, zero or more
\* than one, the usage message goes to the error stream, the exit code is 1, no
\* file is opened and nothing reaches standard output.
WrongArgCountIsUsageError ==
  argc # 2 =>
     /\ ~opened
     /\ out = <<>>
     /\ pc = "exit" => exitCode = 1 /\ err = <<<<"Usage", <<>>>>>>

\* C4 amended: with no argument at all, the usage message goes to the error
\* stream, the exit code is 1, no file is opened and nothing reaches standard
\* output.
MissingArgIsUsageError ==
  argc < 2 =>
     /\ ~opened
     /\ out = <<>>
     /\ pc = "exit" => exitCode = 1 /\ err = <<<<"Usage", <<>>>>>>

\* The program has ended on the usage message.
MissingArgIsUsageErrorWitness ==
  pc = "exit" /\ argc < 2 /\ err # <<>>

\* C5: when the file cannot be opened the error stream names it, the exit code
\* is 1 and standard output is empty; standard output only ever holds the
\* content of the lines read, between color markers; exit code 0 comes only
\* once every line of the file has been emitted.
OutputOnlyContent ==
  /\ (pc = "exit" /\ argv # <<>> /\ ~canOpen) =>
        /\ err = <<<<"Error: Cannot open file", argv[1]>>>>
        /\ exitCode = 1
        /\ out = <<>>
  /\ \A k \in 1..Len(out) : out[k][1] \in {"ch", "sgr"}
  /\ IsPrefix(Strip(out), Flatten(content))
  /\ (pc = "exit" /\ exitCode = 0) =>
        /\ file = <<>>
        /\ Strip(out) = Flatten(content)
        /\ err = <<>>

\* The program has ended on a file it could not open.
OutputOnlyContentWitness ==
  pc = "exit" /\ argv # <<>> /\ ~canOpen /\ err # <<>>

Max(S) == CHOOSE x \in S : \A y \in S : y <= x

\* The comment-start token of the catalog rule set in use.
CommentToken == IF rules = CppRules THEN <<"/", "/">> ELSE <<"#">>

\* The offsets of s at which tok stands.
TokenOffsets(s, tok) == {c \in 0..(Len(s) - Len(tok)) : SubSeq(s, c + 1, c + Len(tok)) = tok}

\* A rule other than the comment rule has its leftmost match before offset c.
OtherMatchBefore(s, c) ==
  \E i \in Matching(rules, s) :
     rules[i].color_code # CommentColor /\ MatchOf(rules, i, s).position < c

\* C6: when the comment-start token stands in the rest of the line and no other
\* match starts before it, everything from the token to the end of the line is
\* emitted as one comment-colored span, the last span of the line.
CommentRunsToEnd ==
  [][ (/\ pc = "scan"
       /\ TokenOffsets(remaining, CommentToken) # {}
       /\ ~OtherMatchBefore(remaining, Min(TokenOffsets(remaining, CommentToken)))) =>
        LET c == Min(TokenOffsets(remaining, CommentToken))
        IN  /\ out' = out \o Emit(SubSeq(remaining, 1, c))
                          \o <<CommentColor>>
                          \o Emit(SubSeq(remaining, c + 1, Len(remaining)))
                          \o <<reset>>
            /\ remaining' = <<>> ]_vars

\* The number of backslashes that stand right before index j of s, counted
\* back no further than index lo.
BackslashesBefore(s, lo, j) ==
  LET others == {t \in lo..(j - 1) : s[t] # BS}
  IN  IF others = {} THEN j - lo ELSE j - 1 - Max(others)

\* The indices at which the literal that opens at offset p of s can close: the
\* same quote, not escaped by a backslash.
ClosingQuotes(s, p) ==
  {j \in (p + 2)..Len(s) : s[j] = s[p + 1] /\ BackslashesBefore(s, p + 2, j) % 2 = 0}

\* C7: when a complete quoted literal begins at the lowest start among the
\* matches of all rules, the literal is emitted whole, from its opening to its
\* closing quote, as one string-colored span, and the scan goes on after the
\* closing quote: nothing inside the literal becomes a span of its own.
StringColoredWhole ==
  [][ (/\ pc = "scan"
       /\ remaining # <<>>
       /\ Matching(rules, remaining) # {}
       /\ remaining[LowestStart(rules, remaining) + 1] \in {DQ, SQ}
       /\ ClosingQuotes(remaining, LowestStart(rules, remaining)) # {}) =>
        LET p == LowestStart(rules, remaining)
            c == Min(ClosingQuotes(remaining, p))
        IN  /\ out' = out \o Emit(SubSeq(remaining, 1, p))
                          \o <<StringColor>>
                          \o Emit(SubSeq(remaining, p + 1, c))
                          \o <<reset>>
            /\ remaining' = SubSeq(remaining, c + 1, Len(remaining)) ]_vars

\* A literal with a digit right after its opening quote has been emitted as a
\* string-colored span, and the line holds no number-colored span.
StringColoredWholeWitness ==
  /\ pc = "getline"
  /\ \E k \in 1..(Len(out) - 3) :
       /\ out[k] = StringColor
       /\ out[k + 1][2] \in {DQ, SQ}
       /\ out[k + 2] = <<"ch", "1">>
  /\ \A k \in 1..Len(out) : out[k] # NumberColor

\* The offset in the line of the output item k, and the offset at which the
\* colored span that opens at item k ends.
SpanStart(o, k) == Cardinality({j \in 1..(k - 1) : o[j][1] = "ch"})
SpanEnd(o, k) == SpanStart(o, k) + Min({j \in (k + 1)..Len(o) : o[j] = reset}) - k - 1

\* C8: every keyword-colored or number-colored span is a whole word of the
\* original line: the character of the line before the span and the one after
\* it, where there is one, are not word characters.
WholeWordSpans ==
  \A k \in 1..Len(out) :
     out[k] \in {KeywordColor, NumberColor} =>
        /\ SpanStart(out, k) = 0 \/ line[SpanStart(out, k)] \notin WordChars
        /\ SpanEnd(out, k) = Len(line) \/ line[SpanEnd(out, k) + 1] \notin WordChars

\* A keyword or a number has been matched at the very start of a rest cut right
\* after an earlier match.
WholeWordSpansWitness ==
  \E k \in 2..Len(out) : out[k] \in {KeywordColor, NumberColor} /\ out[k - 1] = reset

\* C10: the color markers of a line are well formed: a color is followed by a
\* matched text that is not empty and then by reset, a reset closes a color, so
\* the two alternate from a color on; plain text and the line terminator are
\* emitted while no color is active.
WellFormedMarkers ==
  /\ \A k \in 1..Len(out) :
        IsColor(out[k]) =>
           /\ out[k] \in {KeywordColor, StringColor, CommentColor, NumberColor}
           /\ k + 2 <= Len(out)
           /\ ~IsMarker(out[k + 1])
           /\ \E j \in (k + 2)..Len(out) :
                 out[j] = reset /\ \A t \in (k + 1)..(j - 1) : ~IsMarker(out[t])
  /\ \A k \in 1..Len(out) :
        out[k] = reset =>
           \E j \in 1..(k - 1) :
              IsColor(out[j]) /\ \A t \in (j + 1)..(k - 1) : ~IsMarker(out[t])
  /\ pc = "getline" =>
        /\ out[Len(out)] = <<"ch", LF>>
        /\ Len(out) > 1 => out[Len(out) - 1] = reset \/ ~IsMarker(out[Len(out) - 1])
        /\ Strip(out) = line \o <<LF>>

\* A line has been emitted with two colored spans and plain text between them.
WellFormedMarkersWitness ==
  /\ pc = "getline"
  /\ \E j, k \in 1..Len(out) :
       /\ j + 1 < k
       /\ out[j] = reset
       /\ IsColor(out[k])
       /\ \A t \in (j + 1)..(k - 1) : ~IsMarker(out[t])
====
